---- MODULE Spec2Model ----
(***************************************************************************)
(* Model of the NHTSA harvest pipelines: the ops of src/ops/nhtsa_ops.py   *)
(* and the three jobs of src/repositories/nhtsa_repo.py.                   *)
(*                                                                         *)
(* One behaviour is one run of one job against a store left by earlier     *)
(* runs.  An op is a step of the orchestration graph: it starts when all   *)
(* its upstream ops are done, and an op that raises leaves its downstream  *)
(* ops pending for ever.  The responses of the upstream API are inputs,    *)
(* drawn afresh at every request.                                          *)
(***************************************************************************)
EXTENDS Integers, Sequences, FiniteSets, TLC

VARIABLES
    job,        \* the job this run executes
    store,      \* the DuckDB file: table name -> [exists, rows]
    before,     \* the store as the run found it (history)
    pc,         \* op -> "pending" | "running" | "connected" | "dropped" | "done" | "failed"
    out,        \* op -> the value the op returned (a list or the rows of a frame)
    raised,     \* op -> name of the exception that ended the op, "" if none
    cur,        \* the op that owns the loop variables below
    page,       \* fetch_manufacturers: page
    idx,        \* position of the for loop in its key list (1-based)
    df_list,    \* df_list of the running fetch op: a list of frames
    log,        \* requests of the running fetch op, with the response each got (history)
    catalog     \* rows the model endpoint serves per vehicle type, fixed for a run

vars == <<job, store, before, pc, out, raised, cur, page, idx, df_list, log, catalog>>

----------------------------------------------------------------------------
(* Bounds of the model *)

MaxPages == 2       \* non-empty pages the manufacturer listing serves
MaxPageLen == 1     \* records on a page
MaxKeys == 2        \* make ids the makes table of an earlier run holds
MaxResults == 2     \* Results entries of a decodewmi response
MaxCsvRows == 1     \* data rows of a CSV response

(* Program constants *)

YearSpan == 14
CurrentYear == 2026

----------------------------------------------------------------------------
(* Sequences *)

Range(s) == {s[i] : i \in 1..Len(s)}

SeqsUpTo(S, n) == UNION {[1..k -> S] : k \in 0..n}

RECURSIVE Flatten(_)
Flatten(ss) == IF ss = <<>> THEN <<>> ELSE Head(ss) \o Flatten(Tail(ss))

Permutations_(S) ==
    {p \in [1..Cardinality(S) -> S] : \A i, j \in 1..Cardinality(S) : p[i] = p[j] => i = j}

----------------------------------------------------------------------------
(* The ops, the tables and the graphs of the three jobs *)

Jobs == {"fetch_1_mfr_make_job", "fetch_2_wmi_job", "fetch_3_model_name_job"}

UploadOps == {"upload_mfrs_to_duckdb", "upload_makes_to_duckdb", "upload_wmi_by_mfr_to_duckdb",
              "upload_wmi_by_make_to_duckdb", "upload_models_to_duckdb"}

KeyReadOps == {"fetch_mfr_id_list", "fetch_wmi_list", "fetch_make_id_list"}

CsvLoopOps == {"fetch_wmi_by_manufacturer_id", "fetch_model_names"}

LoopOps == CsvLoopOps \cup {"fetch_manufacturers", "fetch_makes_from_wmi"}

Ops == UploadOps \cup KeyReadOps \cup LoopOps \cup {"fetch_makes"}

Tables == {"manufacturers", "makes", "wmi_by_mfr", "wmi_by_make", "models"}

TableNameCopied(op) ==
    CASE op = "upload_mfrs_to_duckdb" -> "manufacturers"
      [] op = "upload_makes_to_duckdb" -> "makes"
      [] op = "upload_wmi_by_mfr_to_duckdb" -> "wmi_by_mfr"
      [] op = "upload_wmi_by_make_to_duckdb" -> "wmi_by_mfr"
      [] op = "upload_models_to_duckdb" -> "models"

\* configured(upload_df_to_duckdb, ...)({'table_name': ...})
TableName(op) ==
    CASE op = "upload_mfrs_to_duckdb" -> "manufacturers"
      [] op = "upload_makes_to_duckdb" -> "makes"
      [] op = "upload_wmi_by_mfr_to_duckdb" -> "wmi_by_mfr"
      [] op = "upload_wmi_by_make_to_duckdb" -> "wmi_by_make"
      [] op = "upload_models_to_duckdb" -> "models"

\* the table and the column a key extractor selects from
KeyTable(op) ==
    CASE op = "fetch_mfr_id_list" -> "manufacturers"
      [] op = "fetch_wmi_list" -> "wmi_by_mfr"
      [] op = "fetch_make_id_list" -> "makes"

KeyOf(op, row) ==
    CASE op = "fetch_mfr_id_list" -> row.Mfr_ID
      [] op = "fetch_wmi_list" -> row.wmi
      [] op = "fetch_make_id_list" -> row.make_id

JobOps(j) ==
    CASE j = "fetch_1_mfr_make_job" ->
            {"fetch_manufacturers", "upload_mfrs_to_duckdb", "fetch_makes", "upload_makes_to_duckdb"}
      [] j = "fetch_2_wmi_job" ->
            {"fetch_mfr_id_list", "fetch_wmi_by_manufacturer_id", "upload_wmi_by_mfr_to_duckdb",
             "fetch_wmi_list", "fetch_makes_from_wmi", "upload_wmi_by_make_to_duckdb"}
      [] j = "fetch_3_model_name_job" ->
            {"fetch_make_id_list", "fetch_model_names", "upload_models_to_duckdb"}

\* the op whose return value is the argument of op (the composition of the job bodies)
Input(op) ==
    CASE op = "upload_mfrs_to_duckdb" -> "fetch_manufacturers"
      [] op = "upload_makes_to_duckdb" -> "fetch_makes"
      [] op = "fetch_wmi_by_manufacturer_id" -> "fetch_mfr_id_list"
      [] op = "upload_wmi_by_mfr_to_duckdb" -> "fetch_wmi_by_manufacturer_id"
      [] op = "fetch_makes_from_wmi" -> "fetch_wmi_list"
      [] op = "upload_wmi_by_make_to_duckdb" -> "fetch_makes_from_wmi"
      [] op = "fetch_model_names" -> "fetch_make_id_list"
      [] op = "upload_models_to_duckdb" -> "fetch_model_names"

HasInput(op) == op \in UploadOps \cup CsvLoopOps \cup {"fetch_makes_from_wmi"}

UpstreamNoStart(op) == IF HasInput(op) THEN {Input(op)} ELSE {}

\* the ops that must be done before op starts: its argument, and for
\* fetch_wmi_list the Nothing input start=done
Upstream(op) ==
    IF op = "fetch_wmi_list" THEN {"upload_wmi_by_mfr_to_duckdb"}
    ELSE IF HasInput(op) THEN {Input(op)} ELSE {}

ReadyAlways(op) ==
    /\ op \in JobOps(job)
    /\ pc[op] = "pending"

Ready(op) ==
    /\ op \in JobOps(job)
    /\ pc[op] = "pending"
    /\ \A u \in Upstream(op) : pc[u] = "done"

----------------------------------------------------------------------------
(* The store *)

NoTable == [exists |-> FALSE, rows |-> <<>>]

Table(rows) == [exists |-> TRUE, rows |-> rows]

\* DROP TABLE IF EXISTS <name>
DropTableIfExists(s, name) == [s EXCEPT ![name] = NoTable]

\* CREATE TABLE <name> AS SELECT * FROM df; a catalog error if the name is taken
CreateFails(s, name) == s[name].exists

CreateTableAsTruncated(s, name, df) ==
    [s EXCEPT ![name] = Table(SubSeq(df, 1, Len(df) - 1))]

CreateTableAs(s, name, df) == [s EXCEPT ![name] = Table(df)]

\* SELECT distinct <column> FROM <name>: the distinct values, in an order the
\* engine does not promise
DistinctKeys(op, rows) == {KeyOf(op, rows[i]) : i \in 1..Len(rows)}

SelectFailsNever(s, name) == FALSE

SelectFails(s, name) == ~s[name].exists

SelectDistinct(op, s) == Permutations_(DistinctKeys(op, s[KeyTable(op)].rows))

----------------------------------------------------------------------------
(* What the upstream API can answer *)

Statuses == {200, 404, 500}

\* getallmanufacturers: the records a page can carry
VehicleType(p, n) == [IsPrimary |-> p, Name |-> n]

MfrRecord(id, name, vts) ==
    [Mfr_ID |-> id, Mfr_Name |-> name, Mfr_CommonName |-> name, Country |-> "US",
     VehicleTypes |-> vts]

MfrRecords ==
    { MfrRecord(1, "A", <<>>),
      MfrRecord(1, "B", <<VehicleType("true", "Passenger Car"), VehicleType("false", "Truck")>>),
      MfrRecord(2, "C", <<VehicleType("true", "Truck")>>) }

\* a response to requests.get: the call raises, or returns whatever status and
\* body the server sent
JsonPage(results) == [json |-> "object", Count |-> Len(results), Results |-> results]

NotJson == [json |-> "invalid", Count |-> 0, Results |-> <<>>]

NoResultsKey == [json |-> "no_results", Count |-> 0, Results |-> <<>>]

Raises(e) == [kind |-> e, status |-> 0, body |-> NotJson]

Response(st, b) == [kind |-> "response", status |-> st, body |-> b]

PageResponses(pg) ==
    {Raises("ConnectionError"), Response(200, NotJson), Response(200, JsonPage(<<>>))}
    \cup {Response(200, JsonPage(rs)) :
            rs \in IF pg <= MaxPages THEN SeqsUpTo(MfrRecords, MaxPageLen) \ {<<>>} ELSE {}}

\* decodewmi: the Results entries of a response
DecodeResults(n) == [i \in 1..n |-> [Make |-> i]]

DecodeBodies == {NotJson, NoResultsKey} \cup {JsonPage(DecodeResults(n)) : n \in 0..MaxResults}

DecodeResponses ==
    {Raises("Timeout"), Raises("ConnectionError")}
    \cup {Response(st, b) : st \in Statuses, b \in DecodeBodies}

\* the CSV endpoints: a status and the data rows under the header
Cell(dtype, text) == [dtype |-> dtype, text |-> text]

WmiCells == {Cell("object", "1G1"), Cell("int64", "100")}

CsvResponse(st, rows) == [status |-> st, rows |-> rows]

CsvErrors == {CsvResponse(st, <<>>) : st \in Statuses \ {200}}

WmiCsvResponses ==
    CsvErrors \cup {CsvResponse(200, [i \in 1..Len(cs) |-> [wmi |-> cs[i]]]) :
                      cs \in SeqsUpTo(WmiCells, MaxCsvRows)}

MakesCsv(n) == [i \in 1..n |-> [make_id |-> i, make_name |-> "make"]]

MakesCsvResponses == CsvErrors \cup {CsvResponse(200, MakesCsv(n)) : n \in 0..MaxCsvRows}

VehicleTypeArgs == <<"passenger", "truck">>

Catalogs == [{"passenger", "truck"} -> 0..MaxCsvRows]

ModelsCsv(make_id, n) ==
    [i \in 1..n |-> [make_id |-> make_id, model_name |-> Cell("int64", "500")]]

ModelCsvResponses(cat, make_id, vehicle_type) ==
    CsvErrors \cup {CsvResponse(200, ModelsCsv(make_id, cat[vehicle_type]))}

----------------------------------------------------------------------------
(* The tables earlier runs can have left *)

PrevManufacturers(k) ==
    [i \in 1..k |-> [Mfr_ID |-> i, Mfr_Name |-> "A", Mfr_CommonName |-> "A", Country |-> "US"]]

PrevTables(t) ==
    {NoTable} \cup
    CASE t = "manufacturers" -> {Table(PrevManufacturers(k)) : k \in 1..2}
      [] t = "makes" -> {Table(MakesCsv(k)) : k \in 0..MaxKeys}
      [] t = "wmi_by_mfr" -> {Table(<<[wmi |-> "OLD"]>>)}
      [] t = "wmi_by_make" -> {Table(<<[Make |-> 1, WMI |-> "OLD"]>>)}
      [] t = "models" -> {Table(<<[make_id |-> 1, model_name |-> "old", year |-> CurrentYear - 1]>>)}

\* the tables a job takes its first keys from
Reads(j) ==
    CASE j = "fetch_1_mfr_make_job" -> {}
      [] j = "fetch_2_wmi_job" -> {"manufacturers"}
      [] j = "fetch_3_model_name_job" -> {"makes"}

\* the tables a job replaces
Writes(j) == {TableName(op) : op \in JobOps(j) \cap UploadOps}

Populated(t) == CHOOSE tb \in PrevTables(t) : tb.exists /\ Len(tb.rows) = 1

\* the states a job can find a table in: the table its keys come from is
\* anything an earlier run left; the tables it replaces are absent when the
\* job never ran (fresh) and populated when it did
StoresOf(j, t, fresh) ==
    IF t \in Reads(j) THEN PrevTables(t)
    ELSE IF t \in Writes(j) /\ fresh THEN {NoTable}
    ELSE {Populated(t)}

InitStores(j) ==
    UNION {
      {[t \in Tables |->
          CASE t = "manufacturers" -> a [] t = "makes" -> b [] t = "wmi_by_mfr" -> c
            [] t = "wmi_by_make" -> d [] t = "models" -> e] :
        a \in StoresOf(j, "manufacturers", fresh), b \in StoresOf(j, "makes", fresh),
        c \in StoresOf(j, "wmi_by_mfr", fresh), d \in StoresOf(j, "wmi_by_make", fresh),
        e \in StoresOf(j, "models", fresh)} : fresh \in BOOLEAN}

----------------------------------------------------------------------------
(* The frames the ops compute *)

\* list.append
ListPrepend(l, x) == <<x>> \o l

ListAppend(l, x) == Append(l, x)

\* pd.concat(df_list, ignore_index=True): "No objects to concatenate" on an empty list
ConcatFailsNever(l) == FALSE

ConcatFails(l) == l = <<>>

PdConcat(l) == Flatten(l)

\* fetch_manufacturers: an empty VehicleTypes becomes the one dummy entry
SubstituteNothing(results) == results

Substitute(results) ==
    [i \in 1..Len(results) |->
        IF results[i].VehicleTypes = <<>>
        THEN [results[i] EXCEPT !.VehicleTypes = <<VehicleType("Null", "Null")>>]
        ELSE results[i]]

\* pd.json_normalize(results, record_path=['VehicleTypes'], meta=[...]): one row
\* per VehicleTypes entry, carrying the meta fields of its record
NormalizeRecord(rec) ==
    [k \in 1..Len(rec.VehicleTypes) |->
        [IsPrimary |-> rec.VehicleTypes[k].IsPrimary, Name |-> rec.VehicleTypes[k].Name,
         Country |-> rec.Country, Mfr_CommonName |-> rec.Mfr_CommonName,
         Mfr_ID |-> rec.Mfr_ID, Mfr_Name |-> rec.Mfr_Name]]

JsonNormalize(results) == Flatten([i \in 1..Len(results) |-> NormalizeRecord(results[i])])

\* df_combined[['Mfr_ID', 'Mfr_Name', 'Mfr_CommonName', 'Country']]
Project(rows) ==
    [i \in 1..Len(rows) |->
        [Mfr_ID |-> rows[i].Mfr_ID, Mfr_Name |-> rows[i].Mfr_Name,
         Mfr_CommonName |-> rows[i].Mfr_CommonName, Country |-> rows[i].Country]]

\* .drop_duplicates(): the first occurrence of every row, in order
DropDuplicatesNone(rows) == rows

DropDuplicatesOnce(rows) ==
    LET dups == {i \in 1..Len(rows) : \E j \in 1..(i - 1) : rows[j] = rows[i]}
        d == CHOOSE i \in dups : \A k \in dups : i <= k
    IN  IF dups = {} THEN rows
        ELSE SubSeq(rows, 1, d - 1) \o SubSeq(rows, d + 1, Len(rows))

RECURSIVE DropDuplicates(_)
DropDuplicates(rows) ==
    IF rows = <<>> THEN <<>>
    ELSE LET init == DropDuplicates(SubSeq(rows, 1, Len(rows) - 1))
             last == rows[Len(rows)]
         IN  IF last \in Range(init) THEN init ELSE Append(init, last)

\* .astype('str') of a parsed CSV column
AsTypeStr(cell) == cell.text

\* pd.read_csv(url): urllib raises HTTPError on an error status
ReadCsvRaisesUnless404(r) == r.status \notin {200, 404}

ReadCsvRaises(r) == r.status # 200

\* fetch_wmi_by_manufacturer_id: the frame of one key
WmiFrame(r) == [i \in 1..Len(r.rows) |-> [wmi |-> AsTypeStr(r.rows[i].wmi)]]

\* fetch_model_names: the frame of one request
ModelFrame(req, r) ==
    [i \in 1..Len(r.rows) |->
        [make_id |-> r.rows[i].make_id, model_name |-> AsTypeStr(r.rows[i].model_name),
         year |-> req.year]]

\* fetch_model_names: the requests of the three nested loops, in loop order
ModelRequestsExclusive(make_id_list) ==
    LET n == Len(make_id_list)
        start_year == CurrentYear - YearSpan
    IN  [i \in 1..(YearSpan * n * 2) |->
            [year |-> start_year + ((i - 1) \div (2 * n)),
             make_id |-> make_id_list[(((i - 1) \div 2) % n) + 1],
             vehicle_type |-> VehicleTypeArgs[((i - 1) % 2) + 1]]]

ModelRequests(make_id_list) ==
    LET n == Len(make_id_list)
        start_year == CurrentYear - YearSpan
    IN  [i \in 1..((YearSpan + 1) * n * 2) |->
            [year |-> start_year + ((i - 1) \div (2 * n)),
             make_id |-> make_id_list[(((i - 1) \div 2) % n) + 1],
             vehicle_type |-> VehicleTypeArgs[((i - 1) % 2) + 1]]]

\* fetch_makes_from_wmi: the exception the try body raises on a response, "" if none
DecodeTry(r) ==
    IF r.kind # "response" THEN r.kind
    ELSE IF r.body.json = "invalid" THEN "JSONDecodeError"
    ELSE IF r.body.json = "no_results" THEN "KeyError"
    ELSE ""

\* fetch_makes_from_wmi: the except clauses; HTTPError is urllib's
DecodeSwallowsNoTimeout(exc, code) ==
    \/ exc = "HTTPError" /\ code = 404
    \/ exc = "JSONDecodeError"

DecodeSwallowsNoJson(exc, code) ==
    \/ exc = "HTTPError" /\ code = 404
    \/ exc = "Timeout"

DecodeSwallows(exc, code) ==
    \/ exc = "HTTPError" /\ code = 404
    \/ exc = "JSONDecodeError"
    \/ exc = "Timeout"

DecodeFrameLiteral(wmi, r) ==
    [i \in 1..Len(r.body.Results) |-> [Make |-> r.body.Results[i].Make, WMI |-> "wmi"]]

\* df.assign(WMI=wmi) of the normalized Results
DecodeFrame(wmi, r) ==
    [i \in 1..Len(r.body.Results) |-> [Make |-> r.body.Results[i].Make, WMI |-> wmi]]

----------------------------------------------------------------------------
(* The run *)

Init ==
    /\ job \in Jobs
    /\ store \in InitStores(job)
    /\ before = store
    /\ pc = [op \in Ops |-> "pending"]
    /\ out = [op \in Ops |-> <<>>]
    /\ raised = [op \in Ops |-> ""]
    /\ cur = ""
    /\ page = 1
    /\ idx = 1
    /\ df_list = <<>>
    /\ log = <<>>
    /\ catalog \in IF job = "fetch_3_model_name_job" THEN Catalogs
                  ELSE {[v \in {"passenger", "truck"} |-> 0]}

Done(op, value) ==
    /\ pc' = [pc EXCEPT ![op] = "done"]
    /\ out' = [out EXCEPT ![op] = value]
    /\ UNCHANGED raised

Fail(op, exc) ==
    /\ pc' = [pc EXCEPT ![op] = "failed"]
    /\ raised' = [raised EXCEPT ![op] = exc]
    /\ UNCHANGED out

Entry(req, r) == [req |-> req, resp |-> r]

\* the list a keyed fetch iterates over
Requests(op) ==
    IF op = "fetch_model_names" THEN ModelRequests(out[Input(op)]) ELSE out[Input(op)]

(* upload_df_to_duckdb, under each of its five configurations *)

UploadConnect(op) ==
    /\ op \in UploadOps
    /\ Ready(op)
    /\ pc' = [pc EXCEPT ![op] = "connected"]
    /\ UNCHANGED <<job, store, before, out, raised, cur, page, idx, df_list, log, catalog>>

UploadDrop(op) ==
    /\ op \in UploadOps
    /\ pc[op] = "connected"
    /\ store' = DropTableIfExists(store, TableName(op))
    /\ pc' = [pc EXCEPT ![op] = "dropped"]
    /\ UNCHANGED <<job, before, out, raised, cur, page, idx, df_list, log, catalog>>

UploadCreate(op) ==
    /\ op \in UploadOps
    /\ pc[op] = "dropped"
    /\ IF CreateFails(store, TableName(op))
       THEN Fail(op, "CatalogException") /\ UNCHANGED store
       ELSE /\ store' = CreateTableAs(store, TableName(op), out[Input(op)])
            /\ Done(op, <<>>)
    /\ UNCHANGED <<job, before, cur, page, idx, df_list, log, catalog>>

(* fetch_mfr_id_list, fetch_wmi_list, fetch_make_id_list *)

KeyRead(op) ==
    /\ op \in KeyReadOps
    /\ Ready(op)
    /\ IF SelectFails(store, KeyTable(op))
       THEN Fail(op, "CatalogException")
       ELSE \E l \in SelectDistinct(op, store) : Done(op, l)
    /\ UNCHANGED <<job, store, before, cur, page, idx, df_list, log, catalog>>

(* fetch_makes *)

FetchMakes ==
    /\ Ready("fetch_makes")
    /\ \E r \in MakesCsvResponses :
          IF ReadCsvRaises(r)
          THEN Fail("fetch_makes", "HTTPError")
          ELSE Done("fetch_makes", r.rows)
    /\ UNCHANGED <<job, store, before, cur, page, idx, df_list, log, catalog>>

(* the fetch ops that loop: df_list = [], then one request per step *)

LoopStart(op) ==
    /\ op \in LoopOps
    /\ Ready(op)
    /\ pc' = [pc EXCEPT ![op] = "running"]
    /\ cur' = op
    /\ page' = 1
    /\ idx' = 1
    /\ df_list' = <<>>
    /\ log' = <<>>
    /\ UNCHANGED <<job, store, before, out, raised, catalog>>

\* concat and return, after the loop
Return(op, rows) ==
    IF ConcatFails(df_list) THEN Fail(op, "ValueError") ELSE Done(op, rows)

(* fetch_manufacturers: one pass of the while loop; the pass that sees
   Count == 0 leaves the loop and returns *)
FetchPage ==
    LET op == "fetch_manufacturers" IN
    /\ pc[op] = "running"
    /\ \E r \in PageResponses(page) :
          /\ log' = Append(log, Entry(page, r))
          /\ IF r.kind # "response"
             THEN Fail(op, r.kind) /\ UNCHANGED <<page, df_list>>
             ELSE IF r.body.json = "invalid"
             THEN Fail(op, "JSONDecodeError") /\ UNCHANGED <<page, df_list>>
             ELSE IF r.body.Count = 0
             THEN /\ Return(op, DropDuplicates(Project(PdConcat(df_list))))
                  /\ UNCHANGED <<page, df_list>>
             ELSE /\ df_list' = ListAppend(df_list, JsonNormalize(Substitute(r.body.Results)))
                  /\ page' = page + 1
                  /\ UNCHANGED <<pc, out, raised>>
    /\ UNCHANGED <<job, store, before, cur, idx, catalog>>

(* fetch_wmi_by_manufacturer_id: one pass of the for loop *)
FetchWmiByManufacturer ==
    LET op == "fetch_wmi_by_manufacturer_id" IN
    /\ pc[op] = "running"
    /\ idx <= Len(Requests(op))
    /\ \E r \in WmiCsvResponses :
          /\ log' = Append(log, Entry(Requests(op)[idx], r))
          /\ IF ReadCsvRaises(r)
             THEN Fail(op, "HTTPError") /\ UNCHANGED <<idx, df_list>>
             ELSE /\ df_list' = ListAppend(df_list, WmiFrame(r))
                  /\ idx' = idx + 1
                  /\ UNCHANGED <<pc, out, raised>>
    /\ UNCHANGED <<job, store, before, cur, page, catalog>>

(* fetch_model_names: one pass of the innermost for loop *)
FetchModelNames ==
    LET op == "fetch_model_names" IN
    /\ pc[op] = "running"
    /\ idx <= Len(Requests(op))
    /\ LET req == Requests(op)[idx] IN
       \E r \in ModelCsvResponses(catalog, req.make_id, req.vehicle_type) :
          /\ log' = Append(log, Entry(req, r))
          /\ IF ReadCsvRaises(r)
             THEN Fail(op, "HTTPError") /\ UNCHANGED <<idx, df_list>>
             ELSE /\ df_list' = ListAppend(df_list, ModelFrame(req, r))
                  /\ idx' = idx + 1
                  /\ UNCHANGED <<pc, out, raised>>
    /\ UNCHANGED <<job, store, before, cur, page, catalog>>

(* fetch_makes_from_wmi: one pass of the for loop, the try and its handlers *)
FetchMakesFromWmi ==
    LET op == "fetch_makes_from_wmi" IN
    /\ pc[op] = "running"
    /\ idx <= Len(Requests(op))
    /\ LET wmi == Requests(op)[idx] IN
       \E r \in DecodeResponses :
          /\ log' = Append(log, Entry(wmi, r))
          /\ IF DecodeTry(r) = ""
             THEN /\ df_list' = ListAppend(df_list, DecodeFrame(wmi, r))
                  /\ idx' = idx + 1
                  /\ UNCHANGED <<pc, out, raised>>
             ELSE IF DecodeSwallows(DecodeTry(r), r.status)
             THEN /\ idx' = idx + 1
                  /\ UNCHANGED <<df_list, pc, out, raised>>
             ELSE Fail(op, DecodeTry(r)) /\ UNCHANGED <<idx, df_list>>
    /\ UNCHANGED <<job, store, before, cur, page, catalog>>

(* the for loops' exit: concat and return *)
LoopReturn(op) ==
    /\ op \in LoopOps \ {"fetch_manufacturers"}
    /\ pc[op] = "running"
    /\ idx > Len(Requests(op))
    /\ Return(op, PdConcat(df_list))
    /\ UNCHANGED <<job, store, before, cur, page, idx, df_list, log, catalog>>

UploadConnects == \E op \in Ops : UploadConnect(op)
UploadDrops == \E op \in Ops : UploadDrop(op)
UploadCreates == \E op \in Ops : UploadCreate(op)
KeyReads == \E op \in Ops : KeyRead(op)
LoopStarts == \E op \in Ops : LoopStart(op)
LoopReturns == \E op \in Ops : LoopReturn(op)

Next ==
    \/ UploadConnects
    \/ UploadDrops
    \/ UploadCreates
    \/ KeyReads
    \/ FetchMakes
    \/ LoopStarts
    \/ FetchPage
    \/ FetchWmiByManufacturer
    \/ FetchModelNames
    \/ FetchMakesFromWmi
    \/ LoopReturns

Spec == Init /\ [][Next]_vars

----------------------------------------------------------------------------
(* Properties *)

Decode == "fetch_makes_from_wmi"

KeyedOps == CsvLoopOps \cup {Decode}

\* the entries of the log whose response is an HTTP response with status st
WithStatus(st) == {i \in 1..Len(log) : log[i].resp.kind = "response" /\ log[i].resp.status = st}

\* the entry was the last request of an op that ended by raising
RaisedAt(op, i) == pc[op] = "failed" /\ raised[op] # "ValueError" /\ i = Len(log)

\* the rows of df_list tagged with the key
RowsOfKey(wmi) ==
    UNION {{<<f, k>> : k \in {n \in 1..Len(df_list[f]) : df_list[f][n].WMI = wmi}} :
             f \in 1..Len(df_list)}

\* the ops that run only after op is done
RECURSIVE After(_)
After(op) ==
    LET next == {d \in Ops : op \in Upstream(d)}
    IN  next \cup UNION {After(d) : d \in next}

(* C1: in fetch_makes_from_wmi a key answered with status 404 is skipped: it
   contributes no row, no exception propagates because of it, and the keys
   after it are still requested. *)
C1_NotFoundSkipped ==
    cur = Decode =>
        \A i \in WithStatus(404) :
            /\ ~RaisedAt(Decode, i)
            /\ RowsOfKey(log[i].req) = {}
            /\ pc[Decode] = "done" => Len(log) = Len(Requests(Decode))

(* C2: in fetch_makes_from_wmi a key answered with status 500 fails the whole
   batch: the error propagates, no later key is requested, nothing is
   returned and upload_wmi_by_make_to_duckdb does not run. *)
C2_ServerErrorAborts ==
    cur = Decode =>
        \A i \in WithStatus(500) :
            /\ pc[Decode] = "failed"
            /\ i = Len(log)
            /\ out[Decode] = <<>>
            /\ pc["upload_wmi_by_make_to_duckdb"] = "pending"

(* C3: while a publish of a table is in progress the table is either the
   complete old table or the complete new one, never absent or partial. *)
C3_PublishAtomic ==
    \A op \in UploadOps :
        pc[op] \in {"connected", "dropped"} =>
            \/ store[TableName(op)] = before[TableName(op)]
            \/ store[TableName(op)] = Table(out[Input(op)])

(* C4: after a successful publish the table holds exactly the rows given to
   the publish, whatever it held before. *)
C4_PublishReplaces ==
    \A op \in UploadOps :
        pc[op] = "done" => store[TableName(op)] = Table(out[Input(op)])

C4_Witness ==
    \E op \in UploadOps :
        /\ pc[op] = "done"
        /\ before[TableName(op)].exists
        /\ before[TableName(op)].rows # <<>>
        /\ Len(out[Input(op)]) >= 2
        /\ Range(before[TableName(op)].rows) \cap Range(out[Input(op)]) = {}

(* C5: fetch_wmi_list runs only after upload_wmi_by_mfr_to_duckdb of the same
   run is done, and returns the distinct wmi values of the rows that upload
   published, each once. *)
C5_KeyReadAfterPublish ==
    pc["fetch_wmi_list"] # "pending" =>
        /\ pc["upload_wmi_by_mfr_to_duckdb"] = "done"
        /\ pc["fetch_wmi_list"] = "done"
        /\ Range(out["fetch_wmi_list"]) =
             {row.wmi : row \in Range(out["fetch_wmi_by_manufacturer_id"])}
        /\ \A i, j \in 1..Len(out["fetch_wmi_list"]) :
             out["fetch_wmi_list"][i] = out["fetch_wmi_list"][j] => i = j

C5_Witness ==
    /\ pc["fetch_wmi_list"] = "done"
    /\ before["wmi_by_mfr"].exists
    /\ Len(out["fetch_wmi_list"]) = 2
    /\ "OLD" \notin Range(out["fetch_wmi_list"])

(* C6 as stated: a keyed batch fetch never returns an empty result set; with no
   row collected it fails. *)
C6_NoEmptyResult ==
    \A op \in KeyedOps : pc[op] = "done" => out[op] # <<>>

(* C6 amended: a keyed batch fetch fails with the empty-result error exactly
   when no frame was collected (an empty key list, or every key skipped); when
   it returns, at least one frame was collected and the result is the
   concatenation of the frames, which may hold no row. *)
C6_NoFrameFails ==
    /\ [](\A op \in KeyedOps :
            cur = op =>
              /\ pc[op] = "done" => df_list # <<>> /\ out[op] = Flatten(df_list)
              /\ (pc[op] = "failed" /\ raised[op] = "ValueError") =>
                    df_list = <<>> /\ Len(log) = Len(Requests(op)))
    /\ [][\A op \in KeyedOps :
            (pc[op] = "running" /\ pc'[op] # "running" /\ df_list = <<>>
               /\ Len(log) = Len(Requests(op)))
            => (pc'[op] = "failed" /\ raised'[op] = "ValueError")]_vars

C6_Witness ==
    /\ cur = Decode
    /\ pc[Decode] = "failed"
    /\ raised[Decode] = "ValueError"
    /\ Len(log) = 2

(* C7 as stated: in fetch_wmi_by_manufacturer_id and fetch_model_names a key
   answered with status 404 is skipped and does not abort the batch. *)
C7_NotFoundIsolated ==
    \A op \in CsvLoopOps :
        cur = op => \A i \in 1..Len(log) : log[i].resp.status = 404 => ~RaisedAt(op, i)

(* C7 amended: in fetch_wmi_by_manufacturer_id and fetch_model_names a key
   answered with status 404 aborts the batch: the op raises HTTPError, no
   later key is requested, nothing is returned, and the uploads after it do
   not run, so their tables are as the run found them. *)
C7_NotFoundAborts ==
    \A op \in CsvLoopOps :
        cur = op =>
            \A i \in 1..Len(log) :
                log[i].resp.status = 404 =>
                    /\ pc[op] = "failed"
                    /\ raised[op] = "HTTPError"
                    /\ i = Len(log)
                    /\ out[op] = <<>>
                    /\ \A d \in After(op) :
                         /\ pc[d] = "pending"
                         /\ d \in UploadOps => store[TableName(d)] = before[TableName(d)]

C7_Witness ==
    \E op \in CsvLoopOps :
        /\ cur = op
        /\ Len(log) >= 2
        /\ log[Len(log)].resp.status = 404
        /\ Len(log) < Len(Requests(op))
        /\ pc[op] = "failed"

\* the log is n pages with records followed by one page with Count 0
PagesThenEmpty(n) ==
    /\ Len(log) = n + 1
    /\ \A i \in 1..(n + 1) :
         /\ log[i].resp.kind = "response"
         /\ log[i].resp.body.json = "object"
         /\ (log[i].resp.body.Count = 0) <=> (i = n + 1)

\* the manufacturer ids of the rows a record flattens to
IdsOfRecord(rec) ==
    [k \in 1..(IF rec.VehicleTypes = <<>> THEN 1 ELSE Len(rec.VehicleTypes)) |-> rec.Mfr_ID]

IdsOfPage(results) == Flatten([j \in 1..Len(results) |-> IdsOfRecord(results[j])])

IdsOfFrame(rows) == [k \in 1..Len(rows) |-> rows[k].Mfr_ID]

(* C8: when the listing serves N >= 1 pages with records and then a page with
   Count 0, fetch_manufacturers requests pages 1..N+1 in order and none
   after, ends, and has accumulated one frame per page 1..N, in page order,
   holding the records of that page; the empty page adds nothing. *)
C8_Pagination ==
    \A n \in 1..(MaxPages + 1) :
        (cur = "fetch_manufacturers" /\ PagesThenEmpty(n)) =>
            /\ pc["fetch_manufacturers"] = "done"
            /\ \A i \in 1..(n + 1) : log[i].req = i
            /\ Len(df_list) = n
            /\ \A i \in 1..n : IdsOfFrame(df_list[i]) = IdsOfPage(log[i].resp.body.Results)

C8_Witness ==
    /\ cur = "fetch_manufacturers"
    /\ PagesThenEmpty(2)
    /\ pc["fetch_manufacturers"] = "done"
    /\ log[1].resp.body.Results # log[2].resp.body.Results
    /\ log[1].resp.body.Results[1].VehicleTypes = <<>>

(* C9: a key extractor that runs while its source table does not exist fails
   with the missing-table error and returns no list; the keyed fetch and the
   uploads after it do not run and leave their tables as the run found
   them. *)
C9_MissingTable ==
    \A op \in KeyReadOps :
        /\ (pc[op] # "pending" /\ ~store[KeyTable(op)].exists) => pc[op] = "failed"
        /\ pc[op] = "failed" =>
             /\ raised[op] = "CatalogException"
             /\ ~store[KeyTable(op)].exists
             /\ out[op] = <<>>
             /\ \A d \in After(op) :
                  /\ pc[d] = "pending"
                  /\ out[d] = <<>>
                  /\ d \in UploadOps => store[TableName(d)] = before[TableName(d)]

C9_Witness ==
    /\ job = "fetch_2_wmi_job"
    /\ ~before["manufacturers"].exists
    /\ before["wmi_by_make"].exists
    /\ pc["fetch_mfr_id_list"] = "failed"

\* the response lets the try body of fetch_makes_from_wmi reach df_list.append
Appended(i) == log[i].resp.kind = "response" /\ log[i].resp.body.json = "object"

(* C10: in fetch_makes_from_wmi a key whose request times out is skipped: it
   contributes no row and no frame, no exception propagates, the key is not
   requested again and the loop goes on to the next key. *)
C10_TimeoutSkipped ==
    cur = Decode =>
        /\ \A i \in 1..Len(log) :
             log[i].resp.kind = "Timeout" =>
                /\ pc[Decode] = "failed" => (raised[Decode] = "ValueError" \/ i < Len(log))
                /\ RowsOfKey(log[i].req) = {}
                /\ pc[Decode] = "running" => idx > i
        /\ \A i \in 1..Len(log) : log[i].req = Requests(Decode)[i]
        /\ (\A i \in 1..Len(log) : log[i].resp.kind = "Timeout" \/ Appended(i)) =>
             /\ Len(df_list) = Cardinality({i \in 1..Len(log) : Appended(i)})
             /\ pc[Decode] = "running" => idx = Len(log) + 1

C10_Witness ==
    /\ cur = Decode
    /\ Len(log) = 2
    /\ log[1].resp.kind = "Timeout"
    /\ Appended(2)
    /\ pc[Decode] = "done"
    /\ out[Decode] # <<>>

\* the entries of the log whose body is of the given kind
WithBody(kind) ==
    {i \in 1..Len(log) : log[i].resp.kind = "response" /\ log[i].resp.body.json = kind}

(* C11 as stated: in fetch_makes_from_wmi a key whose body is not valid JSON,
   or is JSON without Results, is skipped: no row, no exception, the loop
   goes on. *)
C11_MalformedSkipped ==
    cur = Decode =>
        \A i \in WithBody("invalid") \cup WithBody("no_results") :
            /\ ~RaisedAt(Decode, i)
            /\ RowsOfKey(log[i].req) = {}

(* C11 amended: a key whose body is not valid JSON is skipped: it contributes
   no row, no exception propagates and the loop goes on to the next key; a
   key whose body is JSON without Results raises KeyError, which propagates
   and ends the batch at that key. *)
C11_InvalidJsonSkipped ==
    cur = Decode =>
        /\ \A i \in WithBody("invalid") :
             /\ ~RaisedAt(Decode, i)
             /\ RowsOfKey(log[i].req) = {}
             /\ pc[Decode] = "running" => idx > i
        /\ \A i \in WithBody("no_results") :
             /\ pc[Decode] = "failed"
             /\ raised[Decode] = "KeyError"
             /\ i = Len(log)
             /\ out[Decode] = <<>>

C11_Witness ==
    /\ cur = Decode
    /\ Len(log) = 2
    /\ 1 \in WithBody("invalid")
    /\ Appended(2)
    /\ pc[Decode] = "done"
    /\ out[Decode] # <<>>

\* the rows a record must flatten to: one per VehicleTypes entry, one with the
\* Null markers when it has none
RowsOfRecord(rec) ==
    LET meta(p, n) ==
            [IsPrimary |-> p, Name |-> n, Country |-> rec.Country,
             Mfr_CommonName |-> rec.Mfr_CommonName, Mfr_ID |-> rec.Mfr_ID,
             Mfr_Name |-> rec.Mfr_Name]
    IN  IF Len(rec.VehicleTypes) = 0 THEN <<meta("Null", "Null")>>
        ELSE [k \in 1..Len(rec.VehicleTypes) |->
                 meta(rec.VehicleTypes[k].IsPrimary, rec.VehicleTypes[k].Name)]

(* C12: every record of a fetched page flattens to at least one row carrying
   its parent fields: exactly one row with the Null markers when VehicleTypes
   is empty, exactly k rows when it has k entries; so every manufacturer of
   every fetched page is in the output of fetch_manufacturers. *)
C12_NoRecordLost ==
    cur = "fetch_manufacturers" =>
        \A i \in 1..Len(df_list) :
            LET results == log[i].resp.body.Results IN
            /\ df_list[i] = Flatten([j \in 1..Len(results) |-> RowsOfRecord(results[j])])
            /\ pc["fetch_manufacturers"] = "done" =>
                 \A j \in 1..Len(results) :
                     \E row \in Range(out["fetch_manufacturers"]) :
                         /\ row.Mfr_ID = results[j].Mfr_ID
                         /\ row.Mfr_Name = results[j].Mfr_Name

C12_Witness ==
    /\ cur = "fetch_manufacturers"
    /\ pc["fetch_manufacturers"] = "done"
    /\ Len(df_list) = 2
    /\ log[1].resp.body.Results[1].VehicleTypes = <<>>
    /\ Len(log[2].resp.body.Results[1].VehicleTypes) = 2
    /\ Len(df_list[1]) = 1
    /\ Len(df_list[2]) = 2

\* the decodewmi answers of the end-to-end scenario
DecodedOneRow(i) ==
    Appended(i) /\ log[i].resp.status = 200 /\ Len(log[i].resp.body.Results) = 1

\* two manufacturers are published, each owns one WMI code, the first decode
\* request got one row and the second a 404
TwoManufacturersScenario ==
    /\ job = "fetch_2_wmi_job"
    /\ cur = Decode
    /\ Len(before["manufacturers"].rows) = 2
    /\ Len(out["fetch_wmi_by_manufacturer_id"]) = 2
    /\ Len(Requests(Decode)) = 2
    /\ Len(log) >= 1 => DecodedOneRow(1)
    /\ Len(log) >= 2 => 2 \in WithStatus(404)

(* C13: with two manufacturers published, each owning one WMI code, where
   decoding one WMI gives one row and decoding the other gets a 404, the run
   of fetch_2_wmi_job does not raise and wmi_by_make ends holding exactly the
   one row of the WMI that decoded. *)
C13_EndToEnd ==
    TwoManufacturersScenario =>
        /\ pc[Decode] # "failed"
        /\ pc["upload_wmi_by_make_to_duckdb"] = "done" =>
             store["wmi_by_make"] = Table(<<[Make |-> 1, WMI |-> log[1].req]>>)

\* the rows of the pages fetched so far, projected to the kept columns
Projected == Project(Flatten(df_list))

\* every manufacturer id comes with one name, common name and country
SourceConsistent ==
    LET p == Projected IN
    \A i, j \in 1..Len(p) : p[i].Mfr_ID = p[j].Mfr_ID => p[i] = p[j]

(* C14 as stated: no two rows of the output of fetch_manufacturers have the
   same Mfr_ID, whatever the pages held. *)
C14_IdUnique ==
    pc["fetch_manufacturers"] = "done" =>
        \A i, j \in 1..Len(out["fetch_manufacturers"]) :
            out["fetch_manufacturers"][i].Mfr_ID = out["fetch_manufacturers"][j].Mfr_ID => i = j

(* C14 amended: no two rows of the output of fetch_manufacturers are equal on
   all four kept columns; Mfr_ID is unique in the output when every
   occurrence of an id in the pages carries the same name, common name and
   country. *)
C14_RowsUnique ==
    pc["fetch_manufacturers"] = "done" =>
        LET rows == out["fetch_manufacturers"] IN
        /\ \A i, j \in 1..Len(rows) : rows[i] = rows[j] => i = j
        /\ SourceConsistent =>
             \A i, j \in 1..Len(rows) : rows[i].Mfr_ID = rows[j].Mfr_ID => i = j

C14_Witness ==
    /\ pc["fetch_manufacturers"] = "done"
    /\ SourceConsistent
    /\ Len(Projected) = 3
    /\ Len(out["fetch_manufacturers"]) = 2

(* C15: projecting to the kept columns and dropping duplicates, applied to
   its own output, returns that output unchanged, rows and order; the frame
   fetch_manufacturers returns is such an output. *)
C15_DedupIdempotent ==
    cur = "fetch_manufacturers" =>
        LET once == DropDuplicates(Projected) IN
        /\ DropDuplicates(Project(once)) = once
        /\ pc["fetch_manufacturers"] = "done" => out["fetch_manufacturers"] = once

C15_Witness ==
    /\ cur = "fetch_manufacturers"
    /\ pc["fetch_manufacturers"] = "done"
    /\ ~SourceConsistent
    /\ Len(Projected) = 3
    /\ Len(out["fetch_manufacturers"]) = 2

Models == "fetch_model_names"

\* every combination of a make id of the key list, a year of the last fifteen
\* and a vehicle type
Combinations ==
    {[year |-> y, make_id |-> m, vehicle_type |-> v] :
        y \in (CurrentYear - 14)..CurrentYear,
        m \in Range(out["fetch_make_id_list"]),
        v \in {"passenger", "truck"}}

\* the requests made so far
Requested == {log[i].req : i \in 1..Len(log)}

\* the requests of the log are combinations, none made twice
RequestsOnce ==
    /\ Requested \subseteq Combinations
    /\ Cardinality(Requested) = Len(log)

\* a fetch_model_names that went through its whole list made every request
AllRequested ==
    (pc[Models] = "done" \/ raised[Models] = "ValueError") =>
        /\ Requested = Combinations
        /\ Len(log) = 30 * Len(out["fetch_make_id_list"])

(* C16 as stated: fetch_model_names makes exactly one request per combination
   of make id, year and vehicle type, 30 per make id, and every row of the
   result carries the year and the vehicle type of its request. *)
C16_RequestsAndTags ==
    cur = Models =>
        /\ RequestsOnce
        /\ AllRequested
        /\ \A i \in 1..Len(df_list) : \A k \in 1..Len(df_list[i]) :
             /\ df_list[i][k].year = log[i].req.year
             /\ "vehicle_type" \in DOMAIN df_list[i][k]
             /\ df_list[i][k].vehicle_type = log[i].req.vehicle_type

(* C16 amended: fetch_model_names makes no request outside the combinations
   and none twice, and a fetch that is not aborted makes all of them, 30 per
   make id; every row of the result carries the year of its request, and the
   columns of the CSV, and no vehicle type is added to it. *)
C16_RequestsAndYear ==
    cur = Models =>
        /\ RequestsOnce
        /\ AllRequested
        /\ \A i \in 1..Len(df_list) : \A k \in 1..Len(df_list[i]) :
             /\ df_list[i][k].year = log[i].req.year
             /\ df_list[i][k].make_id = log[i].req.make_id
             /\ DOMAIN df_list[i][k] = {"make_id", "model_name", "year"}
        /\ pc[Models] = "done" => out[Models] = Flatten(df_list)

C16_Witness ==
    /\ cur = Models
    /\ pc[Models] = "done"
    /\ Len(out["fetch_make_id_list"]) = 2
    /\ Len(log) = 60
    /\ Len(out[Models]) >= 60

\* the upload op each table is the configured target of
Owner(t) ==
    CASE t = "manufacturers" -> "upload_mfrs_to_duckdb"
      [] t = "makes" -> "upload_makes_to_duckdb"
      [] t = "wmi_by_mfr" -> "upload_wmi_by_mfr_to_duckdb"
      [] t = "wmi_by_make" -> "upload_wmi_by_make_to_duckdb"
      [] t = "models" -> "upload_models_to_duckdb"

(* C17: each of the five tables is the target of exactly one upload op, and
   a table differs from what the run found only once its own upload op has
   begun to replace it: no upload changes another op's table. *)
C17_OneWriter ==
    /\ \A op \in UploadOps : Owner(TableName(op)) = op
    /\ \A t \in Tables :
         pc[Owner(t)] \in {"pending", "connected"} => store[t] = before[t]

C17_Witness ==
    /\ pc["upload_wmi_by_mfr_to_duckdb"] = "done"
    /\ store["wmi_by_mfr"] # before["wmi_by_mfr"]
    /\ pc["upload_wmi_by_make_to_duckdb"] = "connected"
    /\ before["wmi_by_make"].exists
    /\ store["wmi_by_make"] = before["wmi_by_make"]

\* the rows a decoded key must contribute, tagged with the key
BlockOfKey(i) ==
    IF Appended(i)
    THEN [k \in 1..Len(log[i].resp.body.Results) |->
             [Make |-> log[i].resp.body.Results[k].Make, WMI |-> log[i].req]]
    ELSE <<>>

(* C18: fetch_makes_from_wmi requests the keys of its list in list order, each
   once and none again; its result is the concatenation, in that order, of
   the row blocks of the keys whose response was appended, every row tagged
   with its key and the rows of one key contiguous. *)
C18_OncePerKeyInOrder ==
    cur = Decode =>
        LET keys == out["fetch_wmi_list"]
            rows == Flatten(df_list)
        IN
        /\ Len(log) <= Len(keys)
        /\ \A i \in 1..Len(log) : log[i].req = keys[i]
        /\ (pc[Decode] = "done" \/ raised[Decode] = "ValueError") => Len(log) = Len(keys)
        /\ rows = Flatten([i \in 1..Len(log) |-> BlockOfKey(i)])
        /\ \A a, b, c \in 1..Len(rows) :
             (a < b /\ b < c /\ rows[a].WMI = rows[c].WMI) => rows[b].WMI = rows[a].WMI
        /\ pc[Decode] = "done" => out[Decode] = rows

C18_Witness ==
    /\ cur = Decode
    /\ pc[Decode] = "done"
    /\ Len(log) = 2
    /\ Len(df_list) = 2
    /\ Len(df_list[1]) = MaxResults
    /\ Len(df_list[2]) = MaxResults
    /\ df_list[1][1].WMI # df_list[2][1].WMI

\* the ops whose completion an upload waits for
RECURSIVE Feeds(_)
Feeds(u) == Upstream(u) \cup UNION {Feeds(d) : d \in Upstream(u)}

(* C19: when an op that feeds an upload raises, the upload never starts and
   its table is what the run found, old rows or absent; a table is changed
   only in a run whose fetch for it returned. *)
C19_FailedFetchNoPublish ==
    \A u \in UploadOps :
        /\ (\E op \in Feeds(u) : pc[op] = "failed") =>
             /\ pc[u] = "pending"
             /\ store[TableName(u)] = before[TableName(u)]
        /\ store[TableName(u)] # before[TableName(u)] => pc[Input(u)] = "done"

C19_Witness ==
    /\ pc["fetch_manufacturers"] = "failed"
    /\ raised["fetch_manufacturers"] = "ConnectionError"
    /\ Len(log) = 2
    /\ before["manufacturers"].exists
    /\ store["manufacturers"] = before["manufacturers"]
    /\ pc["upload_mfrs_to_duckdb"] = "pending"
    /\ pc["upload_makes_to_duckdb"] = "done"

====
